---- MODULE Spec2Model ----
(***************************************************************************)
(* A model of the solar-api client library (src/src/lib.rs and             *)
(* src/src/site.rs): the six blocking request functions, the conversion    *)
(* of a transport error into SolarApiError, the query-string builder, the  *)
(* TimeUnit wire tokens, the date parsers and formatters, the series       *)
(* conversion (values / convert) and Overview::estimated_next_update.      *)
(*                                                                         *)
(* Strings are TLA+ strings (TLC gives them Len, \o and SubSeq).  An f64   *)
(* is modelled by an integer; a NaiveDate by its day number and a          *)
(* NaiveDateTime by its second number, both counted from 1970-01-01.       *)
(* A uom quantity is kept, as uom keeps it, as a magnitude in the base     *)
(* unit of its dimension (watt for Power, joule for Energy).               *)
(***************************************************************************)
EXTENDS Integers, Sequences, FiniteSets, TLC

VARIABLES
    now,       \* the local clock, chrono::Local::now().naive_local()
    pc,        \* position of the caller: "idle", or inside a request function
    endpoint,  \* the request function being executed, "" when none
    args,      \* the arguments it was called with (parameters of the function)
    path,      \* the path of the request (local of the function)
    params,    \* the HashMap of request parameters (local of the function)
    url,       \* the URL built by to_url (local of the function)
    reply,     \* reply_text returned by call_url (local of the function)
    calls,     \* transport calls issued by the current/last invocation
    trace,     \* the steps the current/last invocation has taken, in order
    result,    \* what the last request function returned
    ret        \* what the last method/function called by the caller returned

vars == <<now, pc, endpoint, args, path, params, url, reply, calls, trace, result, ret>>

(***************************************************************************)
(* Option and Result.                                                      *)
(***************************************************************************)
None == [some |-> FALSE]
Some(v) == [some |-> TRUE, v |-> v]
Ok(v) == [ok |-> TRUE, val |-> v]
Err(e) == [ok |-> FALSE, err |-> e]

\* F(v), with v evaluated once: let r = v; F(r)
Bind(v, F(_)) == CHOOSE out \in {F(r) : r \in {v}} : TRUE

(***************************************************************************)
(* Strings.                                                                *)
(***************************************************************************)
Char(s, i) == SubSeq(s, i, i)

DigitChars == "0123456789"

IsDigit(c) == \E d \in 1..10 : Char(DigitChars, d) = c

DigitOf(c) == (CHOOSE d \in 1..10 : Char(DigitChars, d) = c) - 1

\* format!("{n}") of an unsigned integer
ToDecimal(n0) ==
    LET dec[n \in Nat] ==
            IF n < 10 THEN Char(DigitChars, n + 1)
            ELSE dec[n \div 10] \o Char(DigitChars, (n % 10) + 1)
    IN  dec[n0]

\* String::pop: removes the last character, if there is one
Pop(s) == IF Len(s) = 0 THEN s ELSE SubSeq(s, 1, Len(s) - 1)

\* all orders in which a finite set can be iterated
Orders(S) ==
    {o \in [1..Cardinality(S) -> S] : \A i, j \in 1..Cardinality(S) : o[i] = o[j] => i = j}

(***************************************************************************)
(* SolarApiError and From<reqwest::Error>.  A reqwest::Error is modelled   *)
(* by the status it carries: None, or Some(code).                          *)
(***************************************************************************)
is_client_error(status) == 400 <= status /\ status <= 499

is_server_error(status) == 500 <= status /\ status <= 599

\* a conversion that takes every error with a status for an API error
FromAnyStatus(error) ==
    IF error.some
    THEN IF error.v = 403
         THEN [kind |-> "ForbiddenError", source |-> error]
         ELSE [kind |-> "ApiError", source |-> error]
    ELSE [kind |-> "NetworkError", source |-> error]

\* a conversion that does not single out 403
FromNo403(error) ==
    IF error.some /\ (is_client_error(error.v) \/ is_server_error(error.v))
    THEN [kind |-> "ApiError", source |-> error]
    ELSE [kind |-> "NetworkError", source |-> error]

From(error) ==
    IF error.some /\ (is_client_error(error.v) \/ is_server_error(error.v))
    THEN IF error.v = 403
         THEN [kind |-> "ForbiddenError", source |-> error]
         ELSE [kind |-> "ApiError", source |-> error]
    ELSE [kind |-> "NetworkError", source |-> error]

ParseError == [kind |-> "ParseError"]

(***************************************************************************)
(* Request parameters and URLs.  A HashMap is a function from keys to      *)
(* values; its iteration order is not specified, so every function that    *)
(* iterates takes the order as an argument, drawn from Orders(DOMAIN map). *)
(***************************************************************************)
BASE_URL == "monitoringapi.solaredge.com"

EmptyMap == [k \in {} |-> ""]

\* HashMap::insert: an existing key is overwritten
Insert(map, k, v) == (k :> v) @@ map

default_map(api_key) == Insert(EmptyMap, "api_key", api_key)

RECURSIVE Fold(_, _, _)
Fold(map, order, i) ==
    IF i = 0 THEN ""
    ELSE Fold(map, order, i - 1) \o order[i] \o "=" \o map[order[i]] \o "&"

\* a builder that keeps the trailing separator
map_to_params_nopop(map, order) == Fold(map, order, Len(order))

map_to_params(map, order) == Pop(Fold(map, order, Len(order)))

to_url(p, map, order) ==
    "https://" \o BASE_URL \o p \o "?" \o map_to_params(map, order)

(***************************************************************************)
(* TimeUnit and its wire tokens.                                           *)
(***************************************************************************)
TimeUnit == {"QuarterOfAnHour", "Hour", "Day", "Week", "Month", "Year"}

QUARTER_OF_AN_HOUR == "QUARTER_OF_AN_HOUR"
HOUR == "HOUR"
DAY == "DAY"
WEEK == "WEEK"
MONTH == "MONTH"
YEAR == "YEAR"

\* a to_param that sends Week to the token of Month
to_param_swapped(self) ==
    CASE self = "QuarterOfAnHour" -> QUARTER_OF_AN_HOUR
      [] self = "Hour" -> HOUR
      [] self = "Day" -> DAY
      [] self = "Week" -> MONTH
      [] self = "Month" -> MONTH
      [] self = "Year" -> YEAR

to_param(self) ==
    CASE self = "QuarterOfAnHour" -> QUARTER_OF_AN_HOUR
      [] self = "Hour" -> HOUR
      [] self = "Day" -> DAY
      [] self = "Week" -> WEEK
      [] self = "Month" -> MONTH
      [] self = "Year" -> YEAR

\* a from_const that falls back to Day
from_const_default(s) ==
    CASE s = QUARTER_OF_AN_HOUR -> Ok("QuarterOfAnHour")
      [] s = HOUR -> Ok("Hour")
      [] s = DAY -> Ok("Day")
      [] s = WEEK -> Ok("Week")
      [] s = MONTH -> Ok("Month")
      [] s = YEAR -> Ok("Year")
      [] OTHER -> Ok("Day")

from_const(s) ==
    CASE s = QUARTER_OF_AN_HOUR -> Ok("QuarterOfAnHour")
      [] s = HOUR -> Ok("Hour")
      [] s = DAY -> Ok("Day")
      [] s = WEEK -> Ok("Week")
      [] s = MONTH -> Ok("Month")
      [] s = YEAR -> Ok("Year")
      [] OTHER -> Err("Cannot parse value")

(***************************************************************************)
(* Calendar arithmetic of chrono: day numbers and civil dates.             *)
(***************************************************************************)
IsLeap(y) == (y % 4 = 0 /\ y % 100 # 0) \/ y % 400 = 0

DaysInMonth(y, m) ==
    CASE m \in {1, 3, 5, 7, 8, 10, 12} -> 31
      [] m \in {4, 6, 9, 11} -> 30
      [] m = 2 -> IF IsLeap(y) THEN 29 ELSE 28

\* the day number of a civil date (days since 1970-01-01)
DaysFromCivil(y, m, d) ==
    Bind(IF m <= 2 THEN y - 1 ELSE y, LAMBDA yy :
    Bind(yy \div 400, LAMBDA era :
    Bind(yy - era * 400, LAMBDA yoe :
    Bind((153 * (IF m > 2 THEN m - 3 ELSE m + 9) + 2) \div 5 + d - 1, LAMBDA doy :
        era * 146097 + (yoe * 365 + yoe \div 4 - yoe \div 100 + doy) - 719468))))

\* the civil date of a day number
CivilFromDays(z) ==
    Bind(z + 719468, LAMBDA zz :
    Bind(zz \div 146097, LAMBDA era :
    Bind(zz - era * 146097, LAMBDA doe :
    Bind((doe - doe \div 1460 + doe \div 36524 - doe \div 146096) \div 365, LAMBDA yoe :
    Bind(doe - (365 * yoe + yoe \div 4 - yoe \div 100), LAMBDA doy :
    Bind((5 * doy + 2) \div 153, LAMBDA mp :
    Bind(IF mp < 10 THEN mp + 3 ELSE mp - 9, LAMBDA m :
        [year |-> yoe + era * 400 + (IF m <= 2 THEN 1 ELSE 0),
         month |-> m,
         day |-> doy - (153 * mp + 2) \div 5 + 1])))))))

SecondsPerDay == 24 * 60 * 60

\* NaiveDate::from_ymd_opt
from_ymd_opt(y, m, d) ==
    IF m \in 1..12 /\ d >= 1 /\ d <= DaysInMonth(y, m)
    THEN Some(DaysFromCivil(y, m, d))
    ELSE None

\* NaiveTime::from_hms_opt, as seconds of the day
from_hms_opt(h, mi, s) ==
    IF h \in 0..23 /\ mi \in 0..59 /\ s \in 0..59
    THEN Some(h * 3600 + mi * 60 + s)
    ELSE None

(***************************************************************************)
(* chrono's parse_from_str: the format is a list of items, matched left    *)
(* to right against the input; the whole input must be consumed.           *)
(***************************************************************************)
Lit(text) == [kind |-> "Literal", text |-> text]
Space == [kind |-> "Space"]
Num(field, width, signed) ==
    [kind |-> "Numeric", field |-> field, width |-> width, signed |-> signed]

\* the items of "%Y-%m-%d"
DateItems ==
    <<Num("year", 4, TRUE), Lit("-"), Num("month", 2, FALSE), Lit("-"),
      Num("day", 2, FALSE)>>

\* the items of "%Y-%m-%d %H:%M:%S"
DateTimeItems ==
    DateItems \o
    <<Space, Num("hour", 2, FALSE), Lit(":"), Num("minute", 2, FALSE), Lit(":"),
      Num("second", 2, FALSE)>>

Rest(s, n) == SubSeq(s, n + 1, Len(s))

StartsWith(s, prefix) ==
    Len(s) >= Len(prefix) /\ SubSeq(s, 1, Len(prefix)) = prefix

\* the number of leading blanks of s
Blanks(s) ==
    LET run[i \in Nat] ==
            IF i < Len(s) /\ Char(s, i + 1) = " " THEN run[i + 1] ELSE i
    IN  run[0]

\* str::trim_start
TrimStart(s) == Rest(s, Blanks(s))

\* the number of leading ASCII digits of s, at most max
DigitRun(s, max) ==
    LET run[i \in Nat] ==
            IF i < max /\ i < Len(s) /\ IsDigit(Char(s, i + 1)) THEN run[i + 1] ELSE i
    IN  run[0]

\* the number a string of digits denotes
DecimalValue(s) ==
    LET val[i \in Nat] ==
            IF i = 0 THEN 0 ELSE 10 * val[i - 1] + DigitOf(Char(s, i))
    IN  val[Len(s)]

\* scan::number(s, 1, max): one to max digits
ScanNumber(s, max) ==
    Bind(DigitRun(s, max), LAMBDA n :
        IF n = 0 THEN None
        ELSE Some([v |-> DecimalValue(SubSeq(s, 1, n)), rest |-> Rest(s, n)]))

\* a numeric item: leading white space is skipped; a signed item takes an
\* explicit sign and then any number of digits, an item without a sign at
\* most its width
ScanNumeric(s0, item) ==
    Bind(TrimStart(s0), LAMBDA s :
    Bind(IF item.signed /\ StartsWith(s, "-") THEN "-"
         ELSE IF item.signed /\ StartsWith(s, "+") THEN "+" ELSE "", LAMBDA sign :
    Bind(ScanNumber(Rest(s, Len(sign)), IF sign = "" THEN item.width ELSE Len(s)),
         LAMBDA r :
        IF r.some /\ sign = "-"
        THEN Some([v |-> 0 - r.v.v, rest |-> r.v.rest])
        ELSE r)))

\* the fields of the numeric items, given the numbers parsed for them in order
Parsed(items, numbers) ==
    Bind(SelectSeq(items, LAMBDA item : item.kind = "Numeric"), LAMBDA nums :
        [f \in {nums[j].field : j \in 1..Len(nums)} |->
            numbers[CHOOSE j \in 1..Len(nums) : nums[j].field = f]])

\* the loop over the items: st is <<the input left, the index of the next
\* item, the numbers parsed so far>>
ParseItems(s0, items) ==
    LET parse[st \in STRING \X Nat \X Seq(Int)] ==
            IF st[2] > Len(items)
            THEN IF Len(st[1]) = 0 THEN Ok(Parsed(items, st[3])) ELSE Err("TooLong")
            ELSE Bind(items[st[2]], LAMBDA item :
                 CASE item.kind = "Literal" ->
                        IF StartsWith(st[1], item.text)
                        THEN parse[<<Rest(st[1], Len(item.text)), st[2] + 1, st[3]>>]
                        ELSE Err("Invalid")
                   [] item.kind = "Space" ->
                        parse[<<TrimStart(st[1]), st[2] + 1, st[3]>>]
                   [] item.kind = "Numeric" ->
                        Bind(ScanNumeric(st[1], item), LAMBDA r :
                            IF r.some
                            THEN parse[<<r.v.rest, st[2] + 1, Append(st[3], r.v.v)>>]
                            ELSE Err("Invalid")))
    IN  parse[<<s0, 1, <<>>>>]

\* NaiveDate::parse_from_str(s, "%Y-%m-%d")
NaiveDate_parse_from_str(s) ==
    Bind(ParseItems(s, DateItems), LAMBDA p :
        IF ~p.ok THEN p
        ELSE Bind(from_ymd_opt(p.val["year"], p.val["month"], p.val["day"]), LAMBDA d :
                 IF d.some THEN Ok(d.v) ELSE Err("OutOfRange")))

\* NaiveDateTime::parse_from_str(s, "%Y-%m-%d %H:%M:%S"); a second of 60 is
\* a leap second, kept by chrono inside second 59
NaiveDateTime_parse_from_str(s) ==
    Bind(ParseItems(s, DateTimeItems), LAMBDA p :
        IF ~p.ok THEN p
        ELSE Bind(from_ymd_opt(p.val["year"], p.val["month"], p.val["day"]), LAMBDA d :
             Bind(from_hms_opt(p.val["hour"], p.val["minute"],
                               IF p.val["second"] = 60 THEN 59 ELSE p.val["second"]),
                  LAMBDA t :
                 IF d.some /\ t.some
                 THEN Ok(d.v * SecondsPerDay + t.v)
                 ELSE Err("OutOfRange"))))

parse_date_time(s) ==
    Bind(NaiveDateTime_parse_from_str(s), LAMBDA r :
        IF r.ok THEN r ELSE Err("Cannot parse value"))

parse_date(s) ==
    Bind(NaiveDate_parse_from_str(s), LAMBDA r :
        IF r.ok THEN r ELSE Err("Cannot parse value"))

(***************************************************************************)
(* chrono's format: zero-padded decimal fields.                            *)
(***************************************************************************)
\* text padded with zeros on the left to the width
Pad(text0, width) ==
    Bind(text0, LAMBDA text :
        LET pad[n \in Nat] == IF n = 0 THEN "" ELSE "0" \o pad[n - 1]
        IN  IF Len(text) >= width THEN text ELSE pad[width - Len(text)] \o text)

\* chrono's %Y: four digits, zero-padded; a year outside 0..9999 is written
\* with its sign before the padded digits
FormatYear(y) ==
    IF 0 <= y /\ y < 10000 THEN Pad(ToDecimal(y), 4)
    ELSE IF y < 0 THEN "-" \o Pad(ToDecimal(0 - y), 4)
    ELSE "+" \o Pad(ToDecimal(y), 4)

\* date.format("%Y-%m-%d").to_string()
formatted_date(date) ==
    Bind(CivilFromDays(date), LAMBDA c :
        FormatYear(c.year) \o "-" \o Pad(ToDecimal(c.month), 2) \o "-"
        \o Pad(ToDecimal(c.day), 2))

formatted_start_date(self) == formatted_date(self.start_date)

formatted_end_date(self) == formatted_date(self.end_date)

\* datetime.format("%Y-%m-%d %H:%M:%S")
format_date_time(datetime) ==
    Bind(datetime % SecondsPerDay, LAMBDA secs :
        formatted_date(datetime \div SecondsPerDay) \o " "
        \o Pad(ToDecimal(secs \div 3600), 2) \o ":"
        \o Pad(ToDecimal((secs % 3600) \div 60), 2) \o ":"
        \o Pad(ToDecimal(secs % 60), 2))

(***************************************************************************)
(* uom quantities: the magnitude in the base unit of the dimension.        *)
(***************************************************************************)
WattPerKilowatt == 1000

JoulePerWattHour == 3600

Power_new_watt(v) == [dim |-> "Power", base |-> v]

Power_new_kilowatt(v) == [dim |-> "Power", base |-> v * WattPerKilowatt]

Energy_new_watt_hour(v) == [dim |-> "Energy", base |-> v * JoulePerWattHour]

\* quantity.get::<watt>()
get_watt(q) == q.base

\* quantity.get::<watt_hour>()
get_watt_hour(q) == q.base \div JoulePerWattHour

\* a parser that takes the wire value for watts
parse_power_as_watt(value) == Power_new_watt(value)

parse_power_kw(value) == Power_new_kilowatt(value)

parse_energy_wh(value) == Energy_new_watt_hour(value)

(***************************************************************************)
(* Series conversion.  A call either returns a value or panics (todo!).    *)
(***************************************************************************)
Returned(v) == [panicked |-> FALSE, val |-> v]
Panicked(msg) == [panicked |-> TRUE, msg |-> msg]

\* Option::map
OptionMap(opt, F(_)) == IF opt.some THEN Some(F(opt.v)) ELSE None

\* a convert that turns a missing value into zero
energy_convert_zero(self, unit) ==
    IF unit = "Wh"
    THEN Returned([date |-> self.date,
                   value |-> Some(Energy_new_watt_hour(IF self.value.some
                                                       THEN self.value.v ELSE 0))])
    ELSE Panicked("not yet implemented: unsupported unit: " \o unit)

\* RawGeneratedEnergyValue::convert
energy_convert(self, unit) ==
    IF unit = "Wh"
    THEN Returned([date |-> self.date,
                   value |-> OptionMap(self.value, Energy_new_watt_hour)])
    ELSE Panicked("not yet implemented: unsupported unit: " \o unit)

\* RawGeneratedPowerValue::convert
power_convert(self, unit) ==
    IF unit = "W"
    THEN Returned([date |-> self.date,
                   value |-> OptionMap(self.value, Power_new_watt)])
    ELSE Panicked("not yet implemented: unsupported unit: " \o unit)

\* values.iter().map(convert).collect(): the first panic ends the call
Collect(outs0) ==
    Bind(outs0, LAMBDA outs :
        IF \E i \in 1..Len(outs) : outs[i].panicked
        THEN outs[CHOOSE i \in 1..Len(outs) :
                      outs[i].panicked /\ \A j \in 1..(i - 1) : ~outs[j].panicked]
        ELSE Returned([i \in 1..Len(outs) |-> outs[i].val]))

\* GeneratedEnergy::values
energy_values(self) ==
    Collect([i \in 1..Len(self.values) |-> energy_convert(self.values[i], self.unit)])

\* GeneratedPowerPerTimeUnit::values
power_values(self) ==
    Collect([i \in 1..Len(self.values) |-> power_convert(self.values[i], self.unit)])

(***************************************************************************)
(* Overview::estimated_next_update.                                        *)
(***************************************************************************)
REFRESH_TIME_IN_M == 15

\* an estimate counted from the moment of the call
estimated_next_update_from_now(self, local_now) ==
    LET next == local_now + (REFRESH_TIME_IN_M * 60 + 10)
        delta == next - local_now
    IN  <<next, delta>>

\* an estimate that waits at least zero seconds
estimated_next_update_clamped(self, local_now) ==
    LET next == self.last_updated_time + (REFRESH_TIME_IN_M * 60 + 10)
        delta == next - local_now
    IN  <<next, IF delta < 0 THEN 0 ELSE delta>>

estimated_next_update(self, local_now) ==
    LET next == self.last_updated_time + (REFRESH_TIME_IN_M * 60 + 10)
        delta == next - local_now
    IN  <<next, delta>>

(***************************************************************************)
(* Deserialization of the reply bodies.  A body is modelled by the JSON    *)
(* value it holds: a record named by its envelope key, or no JSON at all.  *)
(* Fields the structs carry as plain strings are left out.                 *)
(***************************************************************************)
\* serde: a struct is built when every field deserializes
AllOk(rs) == \A i \in 1..Len(rs) : rs[i].ok

Vals(rs) == [i \in 1..Len(rs) |-> rs[i].val]

\* struct Site, with its PrimaryModule
deserialize_Site(w) ==
    Bind(<<parse_date(w.lastUpdateTime), parse_date(w.installationDate)>>, LAMBDA rs :
        IF AllOk(rs)
        THEN Ok([type |-> "Site", id |-> w.id,
                 peak_power |-> parse_power_kw(w.peakPower),
                 last_update_time |-> rs[1].val,
                 installation_date |-> rs[2].val,
                 primary_module |->
                     [maximum_power |-> parse_power_kw(w.primaryModule.maximumPower)]])
        ELSE Err(ParseError))

\* struct SitesReply, and list's (*reply.sites()).clone()
deserialize_SitesReply(body) ==
    IF body.shape # "sites" THEN Err(ParseError)
    ELSE Bind([i \in 1..Len(body.site) |-> deserialize_Site(body.site[i])], LAMBDA rs :
             IF AllOk(rs) THEN Ok([type |-> "Sites", site |-> Vals(rs)])
             ELSE Err(ParseError))

\* struct SiteDetails
deserialize_SiteDetails(body) ==
    IF body.shape # "details" THEN Err(ParseError)
    ELSE deserialize_Site(body.details)

\* struct DataPeriodReply
deserialize_DataPeriodReply(body) ==
    IF body.shape # "dataPeriod" THEN Err(ParseError)
    ELSE Bind(<<parse_date(body.startDate), parse_date(body.endDate)>>, LAMBDA rs :
             IF AllOk(rs)
             THEN Ok([type |-> "DataPeriod", start_date |-> rs[1].val,
                      end_date |-> rs[2].val])
             ELSE Err(ParseError))

\* struct TimeData
deserialize_TimeData(w) == [energy |-> parse_energy_wh(w.energy)]

\* struct OverviewReply, with its GeneratedPower
deserialize_OverviewReply(body) ==
    IF body.shape # "overview" THEN Err(ParseError)
    ELSE Bind(parse_date_time(body.lastUpdateTime), LAMBDA t :
             IF t.ok
             THEN Ok([type |-> "Overview", last_updated_time |-> t.val,
                      life_time_data |-> deserialize_TimeData(body.lifeTimeData),
                      last_year_data |-> deserialize_TimeData(body.lastYearData),
                      last_month_data |-> deserialize_TimeData(body.lastMonthData),
                      last_day_data |-> deserialize_TimeData(body.lastDayData),
                      current_power |-> [power |-> parse_power_kw(body.currentPower.power)]])
             ELSE Err(ParseError))

\* struct RawGeneratedEnergyValue / RawGeneratedPowerValue
deserialize_RawValue(w) ==
    Bind(parse_date_time(w.date), LAMBDA d :
        IF d.ok THEN Ok([date |-> d.val, value |-> w.value]) ELSE Err(ParseError))

\* struct GeneratedEnergy / GeneratedPowerPerTimeUnit
deserialize_Series(body, type) ==
    Bind(from_const(body.timeUnit), LAMBDA tu :
    Bind([i \in 1..Len(body.values) |-> deserialize_RawValue(body.values[i])], LAMBDA rs :
        IF tu.ok /\ AllOk(rs)
        THEN Ok([type |-> type, time_unit |-> tu.val, unit |-> body.unit,
                 values |-> Vals(rs)])
        ELSE Err(ParseError)))

\* struct GeneratedEnergyReply
deserialize_GeneratedEnergyReply(body) ==
    IF body.shape # "energy" THEN Err(ParseError)
    ELSE deserialize_Series(body, "GeneratedEnergy")

\* struct GeneratedPowerReply
deserialize_GeneratedPowerReply(body) ==
    IF body.shape # "power" THEN Err(ParseError)
    ELSE deserialize_Series(body, "GeneratedPowerPerTimeUnit")

\* serde_json::from_str(&reply_text)? of each request function
from_str(fn, body) ==
    CASE fn = "list" -> deserialize_SitesReply(body)
      [] fn = "details" -> deserialize_SiteDetails(body)
      [] fn = "data_period" -> deserialize_DataPeriodReply(body)
      [] fn = "overview" -> deserialize_OverviewReply(body)
      [] fn = "energy" -> deserialize_GeneratedEnergyReply(body)
      [] fn = "power" -> deserialize_GeneratedPowerReply(body)

(***************************************************************************)
(* Bounds and the inputs the environment draws from.                       *)
(***************************************************************************)
MaxLen == 2      \* longest series a reply body carries

MaxTicks == 3    \* how often the clock advances

MaxCalls == 2    \* how often the caller calls values() on one series

Delta == REFRESH_TIME_IN_M * 60 + 10

\* the clock advances in steps of half the refresh delta
TickSeconds == Delta \div 2

\* 2023-11-09 10:28:56, the clock when the caller starts
Clock0 == DaysFromCivil(2023, 11, 9) * SecondsPerDay + 10 * 3600 + 28 * 60 + 56

ApiKeys == {"KEY"}

SiteIds == {120}

DateInputs == {DaysFromCivil(2021, 2, 25), DaysFromCivil(2023, 11, 9)}

\* the periods the caller asks energy for: one day, and some years
DataPeriodInputs ==
    [type : {"DataPeriod"}, start_date : {DaysFromCivil(2021, 2, 25)},
     end_date : DateInputs]

\* the dates of the periods the caller formats
LibDateInputs ==
    {DaysFromCivil(2021, 2, 25), DaysFromCivil(2023, 11, 9), DaysFromCivil(5, 3, 7),
     DaysFromCivil(10000, 1, 1), DaysFromCivil(0 - 1, 12, 31)}

LibPeriodInputs ==
    [type : {"DataPeriod"}, start_date : LibDateInputs, end_date : LibDateInputs]

\* the strings a response carries where a date or a timestamp is expected
DateStringInputs ==
    {"2021-02-25", "2024-02-29", "2021-13-40", "2021-02-30", "2021-00-10",
     "2021-2-5", " 2021-02-25", "2021-02-25 ", "x2021-02-25", "2021/02/25",
     "2021-02-25T10:00:00", "", "+2021-02-25",
     "2023-11-09 10:28:56", "2023-11-09 00:00:00", "2023-11-09T10:28:56",
     "2023-11-09 24:00:00", "2023-11-09 10:60:00", "2023-11-09 10:28:61",
     "2023-11-09 10:28:60", "2023-13-09 10:28:56", "2023-11-09  10:28:56",
     " 2023-11-09 10:28:56", "2023-11-09 10:28:56 ", "2023-11-09 1:2:3",
     "2023-11-0910:28:56", "2023-11-09 10:28"}

\* the time units the caller asks energy in
TimeUnitInputs == {"QuarterOfAnHour", "Year"}

DateTimeInputs == {Clock0 - 3600, Clock0}

\* what reqwest::Error::status() can give
HttpStatuses == {200, 302, 399, 400, 401, 403, 404, 499, 500, 503, 599, 600}

ErrorInputs == {None} \cup {Some(c) : c \in HttpStatuses}

\* the errors call_url returns: get() and text() fail without a status,
\* error_for_status() fails with the 4xx or 5xx status of the response
TransportErrors ==
    {e \in ErrorInputs : ~e.some \/ is_client_error(e.v) \/ is_server_error(e.v)}

TokenInputs ==
    {to_param(v) : v \in TimeUnit}
    \cup {"hour", "Hour", " HOUR", "HOUR ", "HOURS", "OUR", "", "QUARTER", "XX"}

ParamKeys == {"key", "key2", "k"}

ParamValues == {"value", ""}

MapInputs == UNION {[ks -> ParamValues] : ks \in SUBSET ParamKeys}

RawValues == {None, Some(222)}

PointDate(i) == "2023-11-09 " \o Pad(ToDecimal(i - 1), 2) \o ":00:00"

RawSeqs ==
    UNION {{[i \in 1..n |-> [date |-> PointDate(i), value |-> f[i]]] :
               f \in [1..n -> RawValues]} : n \in 0..MaxLen}

Malformed == [shape |-> "malformed"]

SeriesBodies(shape) ==
    [shape : {shape}, timeUnit : {HOUR, "hour"}, unit : {"Wh", "W", "kWh"},
     values : RawSeqs]
    \cup {[shape |-> shape, timeUnit |-> HOUR, unit |-> "Wh",
           values |-> <<[date |-> "2023-11-09T00:00:00", value |-> None]>>]}

SiteWires ==
    [id : SiteIds, peakPower : {3}, primaryModule : [maximumPower : {0, 5}],
     lastUpdateTime : {"2021-05-03"}, installationDate : {"2021-02-25", "2021-13-40"}]

SitesBodies ==
    UNION {[shape : {"sites"}, count : {1}, site : [1..n -> SiteWires]] : n \in 0..MaxLen}

DetailsBodies == [shape : {"details"}, details : SiteWires]

DataPeriodBodies ==
    [shape : {"dataPeriod"}, startDate : {"2021-02-25", "2021-05-03"},
     endDate : {"2021-05-03", "2021-02-25", "2021-13-40"}]

OverviewBodies ==
    [shape : {"overview"},
     lastUpdateTime : {format_date_time(Clock0), format_date_time(Clock0 + TickSeconds),
                       "2023-11-09T10:28:56"},
     lifeTimeData : [energy : {2028}], lastYearData : [energy : {1500}],
     lastMonthData : [energy : {300}], lastDayData : [energy : {12}],
     currentPower : [power : {1173}]]

\* the texts the service can answer a request function with
Bodies(fn) ==
    {Malformed} \cup
    CASE fn = "list" -> SitesBodies
      [] fn = "details" -> DetailsBodies \cup {CHOOSE b \in SitesBodies : TRUE}
      [] fn = "data_period" -> DataPeriodBodies
      [] fn = "overview" -> OverviewBodies
      [] fn = "energy" ->
            SeriesBodies("energy") \cup {CHOOSE b \in SeriesBodies("power") : TRUE}
      [] fn = "power" -> SeriesBodies("power")

(***************************************************************************)
(* The state machine: one caller, one request at a time.                   *)
(***************************************************************************)
NoRet == [op |-> "none"]

NoArgs == [api_key |-> ""]

Init ==
    /\ now = Clock0
    /\ pc = "idle"
    /\ endpoint = ""
    /\ args = NoArgs
    /\ path = ""
    /\ params = EmptyMap
    /\ url = ""
    /\ reply = None
    /\ calls = 0
    /\ trace = <<>>
    /\ result = None
    /\ ret = NoRet

\* the start of a request function: the path and the parameter map
Begin(fn, a, p, map) ==
    /\ pc = "idle"
    /\ args' = a
    /\ path' = p
    /\ params' = map
    /\ url' = ""
    /\ endpoint' = fn
    /\ pc' = "params"
    /\ calls' = 0
    /\ trace' = <<>>
    /\ reply' = None
    /\ result' = None
    /\ ret' = NoRet
    /\ UNCHANGED now

\* let url = to_url(&path, &params)
ToUrl ==
    /\ pc = "params"
    /\ \E order \in Orders(DOMAIN params) : url' = to_url(path, params, order)
    /\ pc' = "built"
    /\ trace' = Append(trace, "build")
    /\ UNCHANGED <<now, endpoint, args, path, params, reply, calls, result, ret>>

list(api_key) ==
    Begin("list", [api_key |-> api_key], "/sites/list", default_map(api_key))

details(api_key, site_id) ==
    Begin("details", [api_key |-> api_key, site_id |-> site_id],
          "/site/" \o ToDecimal(site_id) \o "/details",
          default_map(api_key))

data_period(api_key, site_id) ==
    Begin("data_period", [api_key |-> api_key, site_id |-> site_id],
          "/site/" \o ToDecimal(site_id) \o "/dataPeriod",
          default_map(api_key))

overview(api_key, site_id) ==
    Begin("overview", [api_key |-> api_key, site_id |-> site_id],
          "/site/" \o ToDecimal(site_id) \o "/overview",
          default_map(api_key))

\* a parameter map whose last insert reuses the key of the api key
energy_params_overwrite(api_key, period, time_unit) ==
    Insert(Insert(Insert(default_map(api_key),
                         "startDate", formatted_start_date(period)),
                  "endDate", formatted_end_date(period)),
           "api_key", to_param(time_unit))

energy_params(api_key, period, time_unit) ==
    Insert(Insert(Insert(default_map(api_key),
                         "startDate", formatted_start_date(period)),
                  "endDate", formatted_end_date(period)),
           "timeUnit", to_param(time_unit))

energy(api_key, site_id, period, time_unit) ==
    Begin("energy",
          [api_key |-> api_key, site_id |-> site_id, period |-> period,
           time_unit |-> time_unit],
          "/site/" \o ToDecimal(site_id) \o "/energy",
          energy_params(api_key, period, time_unit))

power_params(api_key, start_datetime, end_datetime) ==
    Insert(Insert(default_map(api_key),
                  "startTime", format_date_time(start_datetime)),
           "endTime", format_date_time(end_datetime))

power(api_key, site_id, start_datetime, end_datetime) ==
    Begin("power",
          [api_key |-> api_key, site_id |-> site_id,
           start_datetime |-> start_datetime, end_datetime |-> end_datetime],
          "/site/" \o ToDecimal(site_id) \o "/power",
          power_params(api_key, start_datetime, end_datetime))

\* the function returns: its locals are gone
Return(r) ==
    /\ result' = Some(r)
    /\ pc' = "idle"
    /\ args' = NoArgs
    /\ path' = ""
    /\ params' = EmptyMap
    /\ url' = ""
    /\ reply' = None

\* call_url(&url)? when the transport fails: a retrying variant
TransportFailedRetry(error) ==
    /\ pc' = "built"
    /\ UNCHANGED <<args, path, params, url, reply, result>>

\* call_url(&url)? when the transport fails: the error is converted and returned
TransportFailed(error) == Return(Err(From(error)))

CallUrlErr(error) ==
    /\ pc = "built"
    /\ calls' = calls + 1
    /\ trace' = Append(trace, "transport")
    /\ TransportFailed(error)
    /\ UNCHANGED <<now, endpoint, ret>>

\* call_url(&url)? when the transport delivers the text of a 2xx response
CallUrlOk ==
    /\ pc = "built"
    /\ calls' = calls + 1
    /\ trace' = Append(trace, "transport")
    /\ \E body \in Bodies(endpoint) : reply' = Some(body)
    /\ pc' = "fetched"
    /\ UNCHANGED <<now, endpoint, args, path, params, url, result, ret>>

\* serde_json::from_str(&reply_text)? and the Ok(..) that ends the function
Parse ==
    /\ pc = "fetched"
    /\ trace' = Append(trace, "parse")
    /\ Return(from_str(endpoint, reply.v))
    /\ UNCHANGED <<now, endpoint, calls, ret>>

Holds(type) == pc = "idle" /\ result.some /\ result.v.ok /\ result.v.val.type = type

\* a method or function called by the caller; a panic ends the program
Called(r) ==
    /\ ret' = r
    /\ pc' = IF r.out.panicked THEN "aborted" ELSE pc
    /\ UNCHANGED <<now, endpoint, args, path, params, url, reply, calls, trace, result>>

\* the number of this call of values() on the series the caller holds
NthCall == IF ret.op = "values" THEN ret.nth + 1 ELSE 1

\* a values() that takes the raw points out of the series
EnergyValuesDraining ==
    /\ Holds("GeneratedEnergy")
    /\ NthCall <= MaxCalls
    /\ ret' = [op |-> "values", nth |-> NthCall, out |-> energy_values(result.v.val)]
    /\ result' = Some(Ok([result.v.val EXCEPT !.values = <<>>]))
    /\ pc' = IF ret'.out.panicked THEN "aborted" ELSE pc
    /\ UNCHANGED <<now, endpoint, args, path, params, url, reply, calls, trace>>

EnergyValues ==
    /\ Holds("GeneratedEnergy")
    /\ NthCall <= MaxCalls
    /\ Called([op |-> "values", nth |-> NthCall, out |-> energy_values(result.v.val)])

PowerValues ==
    /\ Holds("GeneratedPowerPerTimeUnit")
    /\ NthCall <= MaxCalls
    /\ Called([op |-> "values", nth |-> NthCall, out |-> power_values(result.v.val)])

EstimatedNextUpdate ==
    /\ Holds("Overview")
    /\ Called([op |-> "estimated_next_update", at |-> now,
               out |-> Returned(estimated_next_update(result.v.val, now))])

ToParam(v) ==
    /\ pc = "idle"
    /\ Called([op |-> "to_param", arg |-> v, out |-> Returned(to_param(v))])

FromConst(s) ==
    /\ pc = "idle"
    /\ Called([op |-> "from_const", arg |-> s, out |-> Returned(from_const(s))])

FromError(error) ==
    /\ pc = "idle"
    /\ Called([op |-> "from", arg |-> error, out |-> Returned(From(error))])

MapToParams(map, order) ==
    /\ pc = "idle"
    /\ Called([op |-> "map_to_params", arg |-> map, order |-> order,
               out |-> Returned(map_to_params(map, order))])

FormattedDates(period) ==
    /\ pc = "idle"
    /\ Called([op |-> "formatted_dates", arg |-> period,
               out |-> Returned([start |-> formatted_start_date(period),
                                 end |-> formatted_end_date(period)])])

ParseDate(s) ==
    /\ pc = "idle"
    /\ Called([op |-> "parse_date", arg |-> s, out |-> Returned(parse_date(s))])

ParseDateTime(s) ==
    /\ pc = "idle"
    /\ Called([op |-> "parse_date_time", arg |-> s,
               out |-> Returned(parse_date_time(s))])

\* time passes; the clock is read by estimated_next_update only, so time that
\* passes during a request is time that passes after it
Tick ==
    /\ pc = "idle"
    /\ now < Clock0 + MaxTicks * TickSeconds
    /\ now' = now + TickSeconds
    /\ UNCHANGED <<pc, endpoint, args, path, params, url, reply, calls, trace, result, ret>>

\* the caller issues requests, reads the results and lets time pass
Next ==
    \/ \E k \in ApiKeys : list(k)
    \/ \E k \in ApiKeys, id \in SiteIds : details(k, id)
    \/ \E k \in ApiKeys, id \in SiteIds : data_period(k, id)
    \/ \E k \in ApiKeys, id \in SiteIds : overview(k, id)
    \/ \E k \in ApiKeys, id \in SiteIds, p \in DataPeriodInputs, tu \in TimeUnitInputs :
          energy(k, id, p, tu)
    \/ \E k \in ApiKeys, id \in SiteIds, s \in DateTimeInputs, e \in DateTimeInputs :
          power(k, id, s, e)
    \/ ToUrl
    \/ \E error \in TransportErrors : CallUrlErr(error)
    \/ CallUrlOk
    \/ Parse
    \/ EnergyValues
    \/ PowerValues
    \/ EstimatedNextUpdate
    \/ Tick

Spec == Init /\ [][Next]_vars

\* the caller applies the library's pure functions to inputs of its choice
NextLib ==
    \/ \E v \in TimeUnit : ToParam(v)
    \/ \E s \in TokenInputs : FromConst(s)
    \/ \E error \in ErrorInputs : FromError(error)
    \/ \E map \in MapInputs : \E order \in Orders(DOMAIN map) : MapToParams(map, order)
    \/ \E period \in LibPeriodInputs : FormattedDates(period)
    \/ \E s \in DateStringInputs : ParseDate(s)
    \/ \E s \in DateStringInputs : ParseDateTime(s)

SpecLib == Init /\ [][NextLib]_vars

(***************************************************************************)
(* Properties of the series conversion (values / convert).                 *)
(***************************************************************************)
\* the one unit literal convert recognises for a series of the type
RecognizedUnit(type) == IF type = "GeneratedEnergy" THEN "Wh" ELSE "W"

\* the reading of a quantity in the unit its series declares
Reading(type, q) == IF type = "GeneratedEnergy" THEN get_watt_hour(q) ELSE get_watt(q)

Dimension(type) == IF type = "GeneratedEnergy" THEN "Energy" ELSE "Power"

\* values() has just been called on the series the caller holds
ValuesCalled == ret.op = "values"

\* C1: with the recognised unit of its kind ("Wh" for energy, "W" for power),
\* values() returns as many points as the series holds, in the same order:
\* point i carries the timestamp of raw point i, its value is absent exactly
\* when the raw value is absent, and a present raw value v becomes the
\* quantity that reads v in the declared unit.
C1_ValuesPreserveLengthOrderAbsence ==
    (ValuesCalled /\ result.v.val.unit = RecognizedUnit(result.v.val.type)) =>
        /\ ~ret.out.panicked
        /\ Len(ret.out.val) = Len(result.v.val.values)
        /\ \A i \in 1..Len(result.v.val.values) :
             /\ ret.out.val[i].date = result.v.val.values[i].date
             /\ ret.out.val[i].value.some = result.v.val.values[i].value.some
             /\ result.v.val.values[i].value.some =>
                  /\ ret.out.val[i].value.v.dim = Dimension(result.v.val.type)
                  /\ Reading(result.v.val.type, ret.out.val[i].value.v)
                       = result.v.val.values[i].value.v

\* C1 witness: values() was called on an energy series in Wh whose first
\* point has no value and whose second point has one, and it returned.
C1_Witness ==
    /\ ValuesCalled
    /\ result.v.val.type = "GeneratedEnergy"
    /\ result.v.val.unit = "Wh"
    /\ Len(result.v.val.values) = 2
    /\ ~result.v.val.values[1].value.some
    /\ result.v.val.values[2].value.some
    /\ ~ret.out.panicked

\* C2 (as the specification states it): with any unit literal other than the
\* recognised one, values() fails with the unsupported-unit condition for
\* every sequence of raw points, the empty sequence included.
C2_UnrecognizedUnitAlwaysFails ==
    (ValuesCalled /\ result.v.val.unit # RecognizedUnit(result.v.val.type)) =>
        ret.out.panicked

\* C2 witness: values() was called on a non-empty series with an
\* unrecognised unit whose values are all absent, and it failed.
C2_Witness ==
    /\ ValuesCalled
    /\ result.v.val.unit # RecognizedUnit(result.v.val.type)
    /\ Len(result.v.val.values) > 0
    /\ \A i \in 1..Len(result.v.val.values) : ~result.v.val.values[i].value.some
    /\ ret.out.panicked

(***************************************************************************)
(* Properties of the request functions.                                    *)
(***************************************************************************)
WireTokens == {"QUARTER_OF_AN_HOUR", "HOUR", "DAY", "WEEK", "MONTH", "YEAR"}

\* a body with the envelope of the request function whose series carries a
\* TimeUnit token that is not a wire token, or a unit literal convert does
\* not recognise
BadSeriesBody(fn, body) ==
    /\ fn \in {"energy", "power"}
    /\ body.shape = fn
    /\ \/ body.timeUnit \notin WireTokens
       \/ body.unit # (IF fn = "energy" THEN "Wh" ELSE "W")

\* C3 (as the specification states it): when the body of an energy or power
\* response carries an unrecognised TimeUnit token or an unsupported unit
\* literal, the request function returns Err(ParseError).
C3_BadSeriesBodyIsParseError ==
    [][(pc = "fetched" /\ pc' = "idle" /\ BadSeriesBody(endpoint, reply.v))
          => result' = Some(Err(ParseError))]_vars

(***************************************************************************)
(* Properties of the TimeUnit wire tokens.                                 *)
(***************************************************************************)
\* C4: from_const(to_param(v)) returns v for each of the six variants, and
\* every one of the six wire tokens is the token of the variant from_const
\* gives for it: to_param is a bijection between the variants and the tokens.
C4_TokenRoundTrip ==
    /\ ret.op = "to_param" =>
         /\ ret.arg \in TimeUnit
         /\ ret.out.val \in WireTokens
         /\ from_const(ret.out.val) = Ok(ret.arg)
    /\ (ret.op = "from_const" /\ ret.arg \in WireTokens) =>
         /\ ret.out.val.ok
         /\ ret.out.val.val \in TimeUnit
         /\ to_param(ret.out.val.val) = ret.arg

\* C4 witness: from_const was applied to the token of Week and returned Week.
C4_Witness ==
    ret.op = "from_const" /\ ret.arg = "WEEK" /\ ret.out.val = Ok("Week")

\* C5: from_const fails with the parse error for every string that is not
\* exactly one of the six wire tokens; it never returns a variant for one.
C5_UnknownTokenFails ==
    (ret.op = "from_const" /\ ret.arg \notin WireTokens) =>
        /\ ~ret.out.val.ok
        /\ ret.out.val.err = "Cannot parse value"

\* C5 witness: from_const was applied to a token in lower case and failed.
C5_Witness ==
    ret.op = "from_const" /\ ret.arg = "hour" /\ ~ret.out.val.ok

(***************************************************************************)
(* Properties of From<reqwest::Error>.                                     *)
(***************************************************************************)
\* C6: a transport error with status 403 becomes ForbiddenError, one with
\* another 4xx or 5xx status becomes ApiError, one without a status becomes
\* NetworkError; the result is always one of these three, never ParseError,
\* and carries the error it was made from.
C6_ErrorClassification ==
    ret.op = "from" =>
        /\ ret.out.val.kind \in {"ForbiddenError", "ApiError", "NetworkError"}
        /\ ret.out.val.kind # "ParseError"
        /\ ret.out.val.source = ret.arg
        /\ (ret.arg.some /\ ret.arg.v = 403) => ret.out.val.kind = "ForbiddenError"
        /\ (ret.arg.some /\ ret.arg.v \in 400..599 /\ ret.arg.v # 403) =>
              ret.out.val.kind = "ApiError"
        /\ ~ret.arg.some => ret.out.val.kind = "NetworkError"

\* C6 witness: an error with status 403 was converted to ForbiddenError.
C6_Witness ==
    ret.op = "from" /\ ret.arg = Some(403) /\ ret.out.val.kind = "ForbiddenError"

(***************************************************************************)
(* Properties of the steps of a request function.                          *)
(***************************************************************************)
Steps == <<"build", "transport", "parse">>

\* C7: an invocation issues at most one transport call and takes its steps
\* in the order build, transport, parse; it has no outcome before it ends;
\* when it ends after the transport step the outcome is the transport's
\* error and nothing was parsed; when it ends after the parse step the
\* outcome is the parsed value or the parse error.
C7_OneTransportCallInOrder ==
    /\ calls <= 1
    /\ \E n \in 0..Len(Steps) : trace = SubSeq(Steps, 1, n)
    /\ calls = Cardinality({i \in 1..Len(trace) : trace[i] = "transport"})
    /\ pc \in {"params", "built", "fetched"} => ~result.some
    /\ result.some =>
         \/ /\ trace = <<"build", "transport">>
            /\ ~result.v.ok
            /\ result.v.err.kind \in {"ForbiddenError", "ApiError", "NetworkError"}
         \/ /\ trace = Steps
            /\ result.v.ok \/ result.v.err = ParseError

\* C7 witness: an invocation has ended with the error of its one transport
\* call.
C7_Witness ==
    /\ pc = "idle"
    /\ calls = 1
    /\ trace = <<"build", "transport">>
    /\ result.some
    /\ ~result.v.ok

(***************************************************************************)
(* Properties of Overview::estimated_next_update.                          *)
(***************************************************************************)
EstimateCalled == ret.op = "estimated_next_update"

\* C8: the first component is last_updated_time + 910 seconds whatever the
\* clock shows at the call, and the call leaves the overview as it was.
C8_NextIsLastUpdatedPlus910 ==
    /\ [](EstimateCalled => ret.out.val[1] = result.v.val.last_updated_time + 910)
    /\ [][(EstimateCalled' /\ ret' # ret) => result' = result]_vars

\* C8 witness: the estimate was taken at a clock reading other than
\* last_updated_time and other than the estimate itself.
C8_Witness ==
    /\ EstimateCalled
    /\ ret.at # result.v.val.last_updated_time
    /\ ret.at # ret.out.val[1]

\* C9: the second component is the first minus the clock reading of the
\* call: positive before the estimated time, negative after it, zero at it;
\* the call returns in each case; and for the same overview a later call
\* never returns a longer duration than an earlier one.
C9_DurationIsNextMinusNow ==
    /\ [](EstimateCalled =>
            /\ ~ret.out.panicked
            /\ ret.out.val[2] = ret.out.val[1] - ret.at
            /\ ret.at < ret.out.val[1] => ret.out.val[2] > 0
            /\ ret.at > ret.out.val[1] => ret.out.val[2] < 0
            /\ ret.at = ret.out.val[1] <=> ret.out.val[2] = 0)
    /\ [][(EstimateCalled /\ EstimateCalled' /\ result' = result /\ ret'.at >= ret.at)
             => ret'.out.val[2] <= ret.out.val[2]]_vars

\* C9 witness: the estimate was taken after the estimated time and returned
\* a negative duration.
C9_Witness ==
    /\ EstimateCalled
    /\ ret.at > ret.out.val[1]
    /\ ret.out.val[2] < 0

(***************************************************************************)
(* Properties of map_to_params.                                            *)
(***************************************************************************)
\* the positions of the separator in s
Separators(s) == {i \in 1..Len(s) : Char(s, i) = "&"}

\* the segments of s between its separators, by the position they start after
Segments(s) ==
    LET cuts == {0} \cup Separators(s) \cup {Len(s) + 1}
        after(c) == CHOOSE d \in cuts : d > c /\ \A e \in cuts : e > c => d <= e
    IN  [c \in {0} \cup Separators(s) |-> SubSeq(s, c + 1, after(c) - 1)]

\* C10: for a map of n >= 1 pairs the string holds n - 1 separators, neither
\* first nor last, n segments none of which is empty, and every pair as the
\* segment key=value exactly once; for two pairs it is one of the two
\* orderings.
C10_PairsJoinedByAmpersand ==
    (ret.op = "map_to_params" /\ DOMAIN ret.arg # {}) =>
        LET map == ret.arg
            n == Cardinality(DOMAIN ret.arg)
            out == ret.out.val
            segs == Segments(ret.out.val)
        IN  /\ Cardinality(Separators(out)) = n - 1
            /\ 1 \notin Separators(out)
            /\ Len(out) \notin Separators(out)
            /\ Cardinality(DOMAIN segs) = n
            /\ \A c \in DOMAIN segs : segs[c] # ""
            /\ \A k \in DOMAIN map :
                 Cardinality({c \in DOMAIN segs : segs[c] = k \o "=" \o map[k]}) = 1
            /\ n = 2 =>
                 \E a, b \in DOMAIN map :
                    /\ a # b
                    /\ out = a \o "=" \o map[a] \o "&" \o b \o "=" \o map[b]

\* C10 witness: a map of two pairs was rendered with key2 first.
C10_Witness ==
    /\ ret.op = "map_to_params"
    /\ DOMAIN ret.arg = {"key", "key2"}
    /\ ret.order = <<"key2", "key">>
    /\ ret.out.val = "key2=value&key=value"

(***************************************************************************)
(* Properties of the request parameters.                                   *)
(***************************************************************************)
\* a request function is running: its parameter map exists
InRequest == pc \in {"params", "built", "fetched"}

\* C11: the parameter map of every request holds api_key with the caller's
\* key; the map of energy holds besides it exactly startDate, endDate and
\* timeUnit, timeUnit being to_param of the requested unit; the map of power
\* holds besides it exactly startTime and endTime; the maps of list, details,
\* data_period and overview hold no other key.
C11_RequestParameterKeys ==
    InRequest =>
        /\ "api_key" \in DOMAIN params
        /\ params["api_key"] = args.api_key
        /\ endpoint = "energy" =>
             /\ DOMAIN params = {"api_key", "startDate", "endDate", "timeUnit"}
             /\ params["timeUnit"] = to_param(args.time_unit)
        /\ endpoint = "power" =>
             DOMAIN params = {"api_key", "startTime", "endTime"}
        /\ endpoint \in {"list", "details", "data_period", "overview"} =>
             DOMAIN params = {"api_key"}

\* C11 witness: energy was called for yearly values and has built its URL.
C11_Witness ==
    /\ pc = "built"
    /\ endpoint = "energy"
    /\ args.time_unit = "Year"
    /\ params["timeUnit"] = "YEAR"
    /\ params["api_key"] = "KEY"

(***************************************************************************)
(* Properties of DataPeriod.                                               *)
(***************************************************************************)
\* s is ten characters: four digits, "-", two digits, "-", two digits
IsPlainDate(s) ==
    /\ Len(s) = 10
    /\ \A i \in {1, 2, 3, 4, 6, 7, 9, 10} : IsDigit(Char(s, i))
    /\ \A i \in {5, 8} : Char(s, i) = "-"

\* C12 (as the specification states it): whatever the order of the dates of
\* a DataPeriod, formatted_start_date and formatted_end_date return the
\* stored date as a string of ten characters, YYYY-MM-DD with zero padding,
\* and parse_date of that string gives the stored date back.
C12_FormattedDatesArePlainAndParseBack ==
    ret.op = "formatted_dates" =>
        /\ IsPlainDate(ret.out.val.start)
        /\ IsPlainDate(ret.out.val.end)
        /\ parse_date(ret.out.val.start) = Ok(ret.arg.start_date)
        /\ parse_date(ret.out.val.end) = Ok(ret.arg.end_date)

\* C12 witness: a period that starts on 9 November 2023 and ends before it
\* starts was formatted, and the start reads "2023-11-09".
C12_Witness ==
    /\ ret.op = "formatted_dates"
    /\ ret.arg.start_date > ret.arg.end_date
    /\ ret.out.val.start = "2023-11-09"
    /\ IsPlainDate(ret.out.val.end)

(***************************************************************************)
(* Properties of parse_date and parse_date_time.                           *)
(***************************************************************************)
\* s is nineteen characters: a plain date, a blank, and HH:MM:SS in digits
IsPlainDateTime(s) ==
    /\ Len(s) = 19
    /\ IsPlainDate(SubSeq(s, 1, 10))
    /\ Char(s, 11) = " "
    /\ \A i \in {12, 13, 15, 16, 18, 19} : IsDigit(Char(s, i))
    /\ \A i \in {14, 17} : Char(s, i) = ":"

\* C13 (as the specification states it): parse_date accepts a string only if
\* it is exactly YYYY-MM-DD and parse_date_time only if it is exactly
\* YYYY-MM-DD HH:MM:SS, with every component in its range (seconds 0..59);
\* every other string fails with the parse error.
C13_OnlyExactFormsAccepted ==
    /\ (ret.op = "parse_date" /\ ret.out.val.ok) =>
          /\ IsPlainDate(ret.arg)
          /\ formatted_date(ret.out.val.val) = ret.arg
    /\ (ret.op = "parse_date_time" /\ ret.out.val.ok) =>
          /\ IsPlainDateTime(ret.arg)
          /\ format_date_time(ret.out.val.val) = ret.arg
    /\ (ret.op \in {"parse_date", "parse_date_time"} /\ ~ret.out.val.ok) =>
          ret.out.val.err = "Cannot parse value"

\* C13 witness: parse_date was given "2021-13-40" and failed.
C13_Witness ==
    /\ ret.op = "parse_date"
    /\ ret.arg = "2021-13-40"
    /\ ~ret.out.val.ok

(***************************************************************************)
(* Properties of the units of the parsed fields.                           *)
(***************************************************************************)
\* q is the power of x kilowatts: 1000 * x watts
IsKilowatts(q, x) == q.dim = "Power" /\ get_watt(q) = 1000 * x

\* q is the energy of y watt-hours
IsWattHours(q, y) == q.dim = "Energy" /\ get_watt_hour(q) = y

\* the record was parsed from the wire form of a site
SiteFromWire(site, w) ==
    /\ IsKilowatts(site.peak_power, w.peakPower)
    /\ IsKilowatts(site.primary_module.maximum_power, w.primaryModule.maximumPower)

\* the function has parsed its reply with success
Parsed_Ok(fn) ==
    /\ pc = "fetched"
    /\ pc' = "idle"
    /\ endpoint = fn
    /\ result'.v.ok

\* C14: every power field of a site or an overview with wire value x is
\* stored as x kilowatts (1000 * x watts), every rollup energy field with
\* wire value y as y watt-hours, and list returns as many sites as the site
\* array of the reply has entries.
C14_FieldUnitsAreFixed ==
    [][/\ Parsed_Ok("list") =>
            /\ Len(result'.v.val.site) = Len(reply.v.site)
            /\ \A i \in 1..Len(reply.v.site) :
                 SiteFromWire(result'.v.val.site[i], reply.v.site[i])
       /\ Parsed_Ok("details") => SiteFromWire(result'.v.val, reply.v.details)
       /\ Parsed_Ok("overview") =>
            /\ IsKilowatts(result'.v.val.current_power.power, reply.v.currentPower.power)
            /\ IsWattHours(result'.v.val.life_time_data.energy, reply.v.lifeTimeData.energy)
            /\ IsWattHours(result'.v.val.last_year_data.energy, reply.v.lastYearData.energy)
            /\ IsWattHours(result'.v.val.last_month_data.energy, reply.v.lastMonthData.energy)
            /\ IsWattHours(result'.v.val.last_day_data.energy, reply.v.lastDayData.energy)
      ]_vars

\* C14 witness: list has returned two sites, the first with a peak power of
\* 3000 watts and a maximum power of 5000 watts.
C14_Witness ==
    /\ pc = "idle"
    /\ endpoint = "list"
    /\ result.some
    /\ result.v.ok
    /\ Len(result.v.val.site) = 2
    /\ get_watt(result.v.val.site[1].peak_power) = 3000
    /\ get_watt(result.v.val.site[1].primary_module.maximum_power) = 5000

(***************************************************************************)
(* values() as a read of the series.                                       *)
(***************************************************************************)
\* C15: a call of values() leaves the series the caller holds as it was
\* (granularity, unit literal, raw points), and a further call on the same
\* series returns what the call before it returned.
C15_ValuesIsPureRead ==
    [][/\ (ValuesCalled' /\ ret' # ret) => result' = result
       /\ (ValuesCalled /\ ValuesCalled' /\ ret'.nth = ret.nth + 1) =>
            ret'.out = ret.out
      ]_vars

\* C15 witness: values() has returned for the second time on a power series
\* of two points, the first of them with a value.
C15_Witness ==
    /\ ValuesCalled
    /\ ret.nth = 2
    /\ result.v.val.type = "GeneratedPowerPerTimeUnit"
    /\ ~ret.out.panicked
    /\ Len(ret.out.val) = 2
    /\ ret.out.val[1].value.some

(***************************************************************************)
(* Transport errors whose status is no error status.                       *)
(***************************************************************************)
\* C16: an error that carries a status outside 400..599 becomes
\* NetworkError, as an error without a status does; ApiError and
\* ForbiddenError come from statuses in 400..599 only.
C16_OtherStatusIsNetworkError ==
    ret.op = "from" =>
        /\ (ret.arg.some /\ ret.arg.v \notin 400..599) =>
              ret.out.val.kind = "NetworkError"
        /\ ret.out.val.kind \in {"ApiError", "ForbiddenError"} =>
              (ret.arg.some /\ ret.arg.v \in 400..599)

\* C16 witness: an error with status 302 was converted to NetworkError.
C16_Witness ==
    ret.op = "from" /\ ret.arg = Some(302) /\ ret.out.val.kind = "NetworkError"

====
